---------------------------- MODULE Spec2Model ----------------------------
(***************************************************************************)
(* Model of top_games_for_number_of_players.py: main() walks the listing   *)
(* pages of the catalogue, calls get_game_stats() for every listed game    *)
(* and prints one row per game whose best / recommended player counts      *)
(* contain the requested number of players.                                *)
(*                                                                         *)
(* Network calls (requests.get) are split into the request and the reply,  *)
(* so that outstanding requests are visible.  The replies of the two       *)
(* endpoints are the model's inputs.                                       *)
(***************************************************************************)
EXTENDS Integers, Sequences, FiniteSets, TLC

VARIABLES
    num_players,        \* main: int(sys.argv[1])
    num_pages,          \* main: int(sys.argv[2])
    page,               \* main: loop variable of "for page in range(...)"
    games,              \* main: the list returned by get_page_of_games(page)
    idx,                \* main: position of "for game in games" (1-based)
    pc,                 \* control location
    tree,               \* get_game_stats: the last parsed detail reply
    i,                  \* get_game_stats: entries of nums already iterated
    best_counts,        \* get_game_stats / main: best_counts
    recommended_counts, \* get_game_stats / main: recommended_counts
    average_weight,     \* get_game_stats / main: weight (in hundredths)
    stdout,             \* everything print() has written, in order
    exit_status,        \* process exit status, -1 while running
    error,              \* the exception that ended the process, "" if none
    inflight,           \* requests sent whose reply has not arrived
    last_request,       \* history: the request issued last
    attempts,           \* history: r.get calls of the current get_game_stats
    replies,            \* history: replies received by the current call
    rejections,         \* history: of these, the rate-limit rejections
    unlisted,           \* environment: catalogue games not yet listed
    budget              \* environment: rate-limit replies it may still send

vars == <<num_players, num_pages, page, games, idx, pc, tree, i, best_counts,
          recommended_counts, average_weight, stdout, exit_status, error,
          inflight, last_request, attempts, replies, rejections, unlisted, budget>>

-----------------------------------------------------------------------------
(* Bounds of the model *)

\* NUM_PAGES is at most this.
MaxPages == 2
\* Data rows of one listing page.
MaxRows == 2
\* Games the catalogue lists over all the pages of a run.
MaxGames == 3
\* Rate-limit rejections the statistics endpoint sends in a run.
MaxRateLimits == 2
\* Votes one category of one entry may have.
MaxVotes == 1

\* Number of player-count entries a detail reply may carry.
EntryCounts == 0..2

\* Values of NUM_PLAYERS tried.
TargetCounts == {2, 101}

\* The player counts considered: past the end of range(N, 101).
Horizon == 0..103

-----------------------------------------------------------------------------
(* Program constants *)

\* range(int(count_str[:-1]), 101)
RANGE_STOP == 101

RATE_LIMIT_TEXT == "Rate limit exceeded."

HEADER == [kind |-> "header", text |-> "Rating\tRank\tName\tYear\tWeight\tURL"]

-----------------------------------------------------------------------------
(* Detail replies (the XML of /xmlapi2/thing?id=..&stats=1) *)

NoMessage == "<no message element>"
NoWeight == "<no averageweight element>"

Categories == {"Best", "Recommended", "Not Recommended"}

\* The category labels one player-count entry may carry: all three, or one
\* of the two required ones missing.
CategorySets == {Categories, Categories \ {"Best"}, Categories \ {"Recommended"}}

\* votes: the dict built at lines 89-93.
Tallies == UNION {[S -> 0..MaxVotes] : S \in CategorySets}

\* The numplayers attribute, as its characters.
CountStrs == {<<"2">>, <<"2", "+">>}

Entries == [count_str : CountStrs, votes : Tallies]

EntrySeqs == UNION {[1..n -> Entries] : n \in EntryCounts}

MessageTexts == {NoMessage, RATE_LIMIT_TEXT, "Rate limit exceeded", "Not Found"}

WeightAttrs == {NoWeight, "3.86", "n/a"}

\* A reply without the suggested_numplayers element: an error document.
ErrorReplies ==
    [has_nums : {FALSE}, nums : {<<>>}, message : MessageTexts, weight : {NoWeight}]

\* A reply with the suggested_numplayers element (which may be childless) and
\* no top-level message.
DataReplies ==
    [has_nums : {TRUE}, nums : EntrySeqs, message : {NoMessage}, weight : WeightAttrs]

Replies == ErrorReplies \cup DataReplies

NoTree == [has_nums |-> FALSE, nums |-> <<>>, message |-> NoMessage, weight |-> NoWeight]

-----------------------------------------------------------------------------
(* Pure parts of get_game_stats *)

DigitValue ==
    "0" :> 0 @@ "1" :> 1 @@ "2" :> 2 @@ "3" :> 3 @@ "4" :> 4 @@
    "5" :> 5 @@ "6" :> 6 @@ "7" :> 7 @@ "8" :> 8 @@ "9" :> 9

\* int(s) for a string of decimal digits.
RECURSIVE ParseInt(_)
ParseInt(s) ==
    IF Len(s) = 0 THEN 0
    ELSE ParseInt(SubSeq(s, 1, Len(s) - 1)) * 10 + DigitValue[s[Len(s)]]

\* float(s), in hundredths; strings outside the table raise ValueError.
FloatValue == "3.86" :> 386

\* f"{weight:.2f}/5.00": integer part and two decimals.
FormatWeight(w) == <<w \div 100, (w % 100) \div 10, w % 10>>

\* "not nums": an Element is false when it is None or has no children.
Falsy(t) == ~t.has_nums \/ Len(t.nums) = 0

\* Mutant: the text is compared without its final full stop.
IsRateLimitNoDot(text) == text = "Rate limit exceeded"

\* Mutant: the text is matched by its prefix.
IsRateLimitPrefix(text) == text \in {RATE_LIMIT_TEXT, "Rate limit exceeded"}

\* tree.find("message").text == "Rate limit exceeded."
IsRateLimit(text) == text = RATE_LIMIT_TEXT

\* Mutant: the expansion of "N+" stops one short, range(N, 100).
CountShort(count_str) ==
    IF count_str[Len(count_str)] = "+"
    THEN {n \in Horizon : /\ n >= ParseInt(SubSeq(count_str, 1, Len(count_str) - 1))
                          /\ n < RANGE_STOP - 1}
    ELSE {ParseInt(count_str)}

\* Lines 84-88: the counts an entry stands for.
Count(count_str) ==
    IF count_str[Len(count_str)] = "+"
    THEN {n \in Horizon : /\ n >= ParseInt(SubSeq(count_str, 1, Len(count_str) - 1))
                          /\ n < RANGE_STOP}
    ELSE {ParseInt(count_str)}

\* max(votes.values())
MaxVotesOf(votes) ==
    CHOOSE m \in {votes[c] : c \in DOMAIN votes} :
        \A c \in DOMAIN votes : votes[c] <= m

\* Mutant: a category wins only when it strictly exceeds every other one.
ClassifyStrict(votes) ==
    IF "Best" \notin DOMAIN votes THEN "KeyError"
    ELSE IF \A c \in DOMAIN votes \ {"Best"} : votes[c] < votes["Best"] THEN "BEST"
    ELSE IF "Recommended" \notin DOMAIN votes THEN "KeyError"
    ELSE IF \A c \in DOMAIN votes \ {"Recommended"} : votes[c] < votes["Recommended"]
         THEN "RECOMMENDED"
    ELSE "UNRATED"

\* Mutant: the two tests are made in the other order.
ClassifyRecommendedFirst(votes) ==
    IF "Recommended" \notin DOMAIN votes THEN "KeyError"
    ELSE IF votes["Recommended"] = MaxVotesOf(votes) THEN "RECOMMENDED"
    ELSE IF "Best" \notin DOMAIN votes THEN "KeyError"
    ELSE IF votes["Best"] = MaxVotesOf(votes) THEN "BEST"
    ELSE "UNRATED"

\* Lines 94-97: which set the entry's counts go to; a missing key raises.
Classify(votes) ==
    IF "Best" \notin DOMAIN votes THEN "KeyError"
    ELSE IF votes["Best"] = MaxVotesOf(votes) THEN "BEST"
    ELSE IF "Recommended" \notin DOMAIN votes THEN "KeyError"
    ELSE IF votes["Recommended"] = MaxVotesOf(votes) THEN "RECOMMENDED"
    ELSE "UNRATED"

\* Mutant: recommended_counts is looked up first.
RatingRecommendedFirst(n, best, rec) ==
    IF n \in rec THEN "RECOMMENDED"
    ELSE IF n \in best THEN "BEST"
    ELSE "None"

\* Lines 44-46: the rating main gives a game.
Rating(n, best, rec) ==
    IF n \in best THEN "BEST"
    ELSE IF n \in rec THEN "RECOMMENDED"
    ELSE "None"

\* Mutant: the loop over the games stops one game early.
GamesExhaustedEarly(k, gs) == k >= Len(gs)

\* "for game in games" is exhausted.
GamesExhausted(k, gs) == k > Len(gs)

\* GAME_PAGE_TEMPLATE.format(game.bgg_id) and the rest of the row.
Row(rating, game, weight) ==
    [kind |-> "row", rating |-> rating, game |-> game, weight |-> FormatWeight(weight)]

\* The two lines printed before exit(1).
Diagnostic(t) ==
    <<[kind |-> "text", text |-> "Unexpected exception"], [kind |-> "dump", xml |-> t]>>

\* The Game records of listing page p with n data rows.
Listing(p, n) ==
    [k \in 1..n |-> [bgg_rank |-> (p - 1) * MaxRows + k, bgg_id |-> 1000 * p + k]]

NoRequest == [kind |-> "none", arg |-> 0, page |-> 0, row |-> 0]

ListRequest(p) == [kind |-> "list", arg |-> p, page |-> p, row |-> 0]

ThingRequest(p, k, game) == [kind |-> "thing", arg |-> game.bgg_id, page |-> p, row |-> k]

MessageError == "AttributeError: 'NoneType' object has no attribute 'text'"
WeightError == "AttributeError: 'NoneType' object has no attribute 'attrib'"
TableError == "AttributeError: 'NoneType' object has no attribute 'findAll'"

-----------------------------------------------------------------------------
(* The run of main *)

Init ==
    /\ num_players \in TargetCounts
    /\ num_pages \in 1..MaxPages
    /\ page = 1
    /\ games = <<>>
    /\ idx = 1
    /\ pc = "main_loop"
    /\ tree = NoTree
    /\ i = 0
    /\ best_counts = {}
    /\ recommended_counts = {}
    /\ average_weight = 0
    /\ stdout = <<HEADER>>
    /\ exit_status = -1
    /\ error = ""
    /\ inflight = {}
    /\ last_request = NoRequest
    /\ attempts = 0
    /\ replies = 0
    /\ rejections = 0
    /\ unlisted = MaxGames
    /\ budget = MaxRateLimits

mainVars == <<num_players, num_pages, page, games, idx>>
statsVars == <<tree, i, best_counts, recommended_counts, average_weight>>
callVars == <<attempts, replies, rejections>>

\* An uncaught exception: traceback on stderr, exit status 1.
Raise(e) ==
    /\ pc' = "crashed"
    /\ error' = e
    /\ exit_status' = 1

\* Lines 40-41 and 110: the next listing page is requested.
RequestPage ==
    /\ pc = "main_loop"
    /\ page <= num_pages
    /\ inflight' = inflight \cup {ListRequest(page)}
    /\ last_request' = ListRequest(page)
    /\ pc' = "page_wait"
    /\ UNCHANGED <<mainVars, statsVars, callVars, stdout, exit_status, error, unlisted, budget>>

\* Line 40: range(1, num_pages + 1) is exhausted and main returns.
Finish ==
    /\ pc = "main_loop"
    /\ page > num_pages
    /\ pc' = "done"
    /\ exit_status' = 0
    /\ UNCHANGED <<mainVars, statsVars, callVars, stdout, error, inflight, last_request,
                   unlisted, budget>>

\* Lines 110-116: the listing arrives and is parsed into Game records.
ReceivePage ==
    /\ pc = "page_wait"
    /\ \E n \in 0..MaxRows :
        /\ n <= unlisted
        /\ games' = Listing(page, n)
        /\ unlisted' = unlisted - n
    /\ idx' = 1
    /\ inflight' = inflight \ {ListRequest(page)}
    /\ pc' = "game_loop"
    /\ UNCHANGED <<num_players, num_pages, page, statsVars, callVars, stdout,
                   exit_status, error, last_request, budget>>

\* Line 113: the listing has no table, bs.find("table") is None.
ReceiveBrokenPage ==
    /\ pc = "page_wait"
    /\ inflight' = inflight \ {ListRequest(page)}
    /\ Raise(TableError)
    /\ UNCHANGED <<mainVars, statsVars, callVars, stdout, last_request, unlisted, budget>>

\* Lines 42-43 and 65-68: get_game_stats is entered for the next game.
CallGetGameStats ==
    /\ pc = "game_loop"
    /\ ~GamesExhausted(idx, games)
    /\ tree' = NoTree
    /\ i' = 0
    /\ best_counts' = {}
    /\ recommended_counts' = {}
    /\ average_weight' = 0
    /\ attempts' = 0
    /\ replies' = 0
    /\ rejections' = 0
    /\ pc' = "stats_request"
    /\ UNCHANGED <<mainVars, stdout, exit_status, error, inflight, last_request, unlisted, budget>>

\* Lines 42 and 40: the page's games are done, on to the next page.
EndOfPage ==
    /\ pc = "game_loop"
    /\ GamesExhausted(idx, games)
    /\ page' = page + 1
    /\ pc' = "main_loop"
    /\ UNCHANGED <<num_players, num_pages, games, idx, statsVars, callVars, stdout,
                   exit_status, error, inflight, last_request, unlisted, budget>>

-----------------------------------------------------------------------------
(* get_game_stats *)

\* Line 70: r.get(url) is sent.
RequestStats ==
    /\ pc = "stats_request"
    /\ inflight' = inflight \cup {ThingRequest(page, idx, games[idx])}
    /\ last_request' = ThingRequest(page, idx, games[idx])
    /\ attempts' = attempts + 1
    /\ pc' = "stats_wait"
    /\ UNCHANGED <<mainVars, statsVars, replies, rejections, stdout, exit_status, error,
                   unlisted, budget>>

\* Lines 70-73: the reply arrives and is parsed.
Receive(t) ==
    /\ tree' = t
    /\ inflight' = inflight \ {ThingRequest(page, idx, games[idx])}
    /\ replies' = replies + 1
    /\ rejections' = IF ~t.has_nums /\ t.message = RATE_LIMIT_TEXT
                     THEN rejections + 1 ELSE rejections

\* Lines 74 and 82: nums is true, the loop ends and the weight is read.
ReceiveStats(R) ==
    /\ pc = "stats_wait"
    /\ \E t \in R :
        /\ Receive(t)
        /\ ~Falsy(t)
        /\ t.weight \in DOMAIN FloatValue
        /\ average_weight' = FloatValue[t.weight]
        /\ pc' = "for_entries"
        /\ UNCHANGED <<mainVars, i, best_counts, recommended_counts, attempts, stdout,
                       exit_status, error, last_request, unlisted, budget>>

\* Line 82: nums is true, but the weight element or its number is missing.
ReceiveBadWeight(R) ==
    /\ pc = "stats_wait"
    /\ \E t \in R :
        /\ Receive(t)
        /\ ~Falsy(t)
        /\ t.weight \notin DOMAIN FloatValue
        /\ Raise(IF t.weight = NoWeight THEN WeightError ELSE "ValueError")
        /\ UNCHANGED <<mainVars, i, best_counts, recommended_counts, average_weight,
                       attempts, stdout, last_request, unlisted, budget>>

\* Lines 74-76: nums is false and the message is the rate limit: sleep, retry.
ReceiveRateLimit(R) ==
    /\ pc = "stats_wait"
    /\ \E t \in R :
        /\ Receive(t)
        /\ Falsy(t)
        /\ t.message # NoMessage
        /\ IsRateLimit(t.message)
        /\ budget > 0
        /\ budget' = budget - 1
        /\ pc' = "stats_request"
        /\ UNCHANGED <<mainVars, i, best_counts, recommended_counts, average_weight,
                       attempts, stdout, exit_status, error, last_request, unlisted>>

\* Lines 74-81: nums is false and the message is something else: dump, exit(1).
ReceiveUnexpected(R) ==
    /\ pc = "stats_wait"
    /\ \E t \in R :
        /\ Receive(t)
        /\ Falsy(t)
        /\ t.message # NoMessage
        /\ ~IsRateLimit(t.message)
        /\ stdout' = stdout \o Diagnostic(t)
        /\ pc' = "exited"
        /\ exit_status' = 1
        /\ error' = "SystemExit"
        /\ UNCHANGED <<mainVars, i, best_counts, recommended_counts, average_weight,
                       attempts, last_request, unlisted, budget>>

\* Line 75: nums is false and there is no message: None has no .text.
ReceiveNoMessage(R) ==
    /\ pc = "stats_wait"
    /\ \E t \in R :
        /\ Receive(t)
        /\ Falsy(t)
        /\ t.message = NoMessage
        /\ Raise(MessageError)
        /\ UNCHANGED <<mainVars, i, best_counts, recommended_counts, average_weight,
                       attempts, stdout, last_request, unlisted, budget>>

\* Mutant: "elif" written as "if", the second test is made as well.
AddEntryBoth(best, rec, e) ==
    LET b == IF Classify(e.votes) = "BEST" THEN best \cup Count(e.count_str) ELSE best
        r == IF /\ "Recommended" \in DOMAIN e.votes
                /\ e.votes["Recommended"] = MaxVotesOf(e.votes)
             THEN rec \cup Count(e.count_str) ELSE rec
    IN  <<b, r>>

\* Lines 94-97 applied to the sets so far.
AddEntry(best, rec, e) ==
    CASE Classify(e.votes) = "BEST" -> <<best \cup Count(e.count_str), rec>>
      [] Classify(e.votes) = "RECOMMENDED" -> <<best, rec \cup Count(e.count_str)>>
      [] OTHER -> <<best, rec>>

\* Lines 83-97: one iteration of "for num_players in nums".
ForEntry ==
    /\ pc = "for_entries"
    /\ i < Len(tree.nums)
    /\ LET e == tree.nums[i + 1]
       IN  /\ Classify(e.votes) # "KeyError"
           /\ best_counts' = AddEntry(best_counts, recommended_counts, e)[1]
           /\ recommended_counts' = AddEntry(best_counts, recommended_counts, e)[2]
    /\ i' = i + 1
    /\ UNCHANGED <<mainVars, pc, tree, average_weight, callVars, stdout, exit_status,
                   error, inflight, last_request, unlisted, budget>>

\* Lines 94 and 96: a required category is missing from votes.
ForEntryKeyError ==
    /\ pc = "for_entries"
    /\ i < Len(tree.nums)
    /\ Classify(tree.nums[i + 1].votes) = "KeyError"
    /\ Raise("KeyError")
    /\ UNCHANGED <<mainVars, statsVars, callVars, stdout, inflight, last_request, unlisted, budget>>

\* Line 98: the loop is over, the three values are returned to main.
Return ==
    /\ pc = "for_entries"
    /\ i = Len(tree.nums)
    /\ pc' = "rate"
    /\ UNCHANGED <<mainVars, statsVars, callVars, stdout, exit_status, error, inflight,
                   last_request, unlisted, budget>>

\* Lines 44-50: the game is rated and, when rated, its row is printed.
Rate ==
    /\ pc = "rate"
    /\ LET rating == Rating(num_players, best_counts, recommended_counts)
       IN  stdout' = IF rating # "None"
                     THEN Append(stdout, Row(rating, games[idx], average_weight))
                     ELSE stdout
    /\ idx' = idx + 1
    /\ pc' = "game_loop"
    /\ UNCHANGED <<num_players, num_pages, page, games, statsVars, callVars, exit_status,
                   error, inflight, last_request, unlisted, budget>>

-----------------------------------------------------------------------------
(* Specifications *)

\* A tally with all three categories.
Votes(b, r, n) == [c \in Categories |-> CASE c = "Best" -> b [] c = "Recommended" -> r [] OTHER -> n]

Two(v) == [count_str |-> <<"2">>, votes |-> v]

TwoPlus(v) == [count_str |-> <<"2", "+">>, votes |-> v]

\* The replies played back to a whole run of main: the error documents and a
\* few data documents about 2 and "2+" players.
RunEntrySeqs ==
    { <<>>,
      <<Two(Votes(1, 0, 0))>>,
      <<Two(Votes(0, 1, 0))>>,
      <<Two(Votes(0, 0, 1))>>,
      <<Two(Votes(0, 1, 0)), TwoPlus(Votes(1, 0, 0))>>,
      <<Two(Votes(0, 0, 1)), TwoPlus(Votes(0, 1, 0))>>,
      <<Two([c \in Categories \ {"Best"} |-> 0])>> }

RunReplies ==
    ErrorReplies \cup
    {t \in [has_nums : {TRUE}, nums : RunEntrySeqs, message : {NoMessage},
            weight : {NoWeight, "3.86"}] :
        t.weight = NoWeight => t.nums = <<Two(Votes(1, 0, 0))>>}

Next ==
    \/ RequestPage
    \/ Finish
    \/ ReceivePage
    \/ ReceiveBrokenPage
    \/ CallGetGameStats
    \/ EndOfPage
    \/ RequestStats
    \/ ReceiveStats(RunReplies)
    \/ ReceiveBadWeight(RunReplies)
    \/ ReceiveRateLimit(RunReplies)
    \/ ReceiveUnexpected(RunReplies)
    \/ ReceiveNoMessage(RunReplies)
    \/ ForEntry
    \/ ForEntryKeyError
    \/ Return
    \/ Rate

Spec == Init /\ [][Next]_vars

\* One call of get_game_stats, for the only game of the only page, against
\* every reply.
StatsInit ==
    /\ num_players \in {2}
    /\ num_pages = 1
    /\ page = 1
    /\ games = Listing(1, 1)
    /\ idx = 1
    /\ pc = "stats_request"
    /\ tree = NoTree
    /\ i = 0
    /\ best_counts = {}
    /\ recommended_counts = {}
    /\ average_weight = 0
    /\ stdout = <<HEADER>>
    /\ exit_status = -1
    /\ error = ""
    /\ inflight = {}
    /\ last_request = ListRequest(1)
    /\ attempts = 0
    /\ replies = 0
    /\ rejections = 0
    /\ unlisted = MaxGames - 1
    /\ budget = MaxRateLimits

StatsNext ==
    \/ RequestStats
    \/ ReceiveStats(Replies)
    \/ ReceiveBadWeight(Replies)
    \/ ReceiveRateLimit(Replies)
    \/ ReceiveUnexpected(Replies)
    \/ ReceiveNoMessage(Replies)
    \/ ForEntry
    \/ ForEntryKeyError
    \/ Return

StatsSpec == StatsInit /\ [][StatsNext]_vars

-----------------------------------------------------------------------------
(* Vocabulary of the properties *)

\* The entry the loop of get_game_stats has just finished with.
Current == tree.nums[i]

\* An iteration of "for num_players in nums" takes place in this step.
EntryStep == pc = "for_entries" /\ i' = i + 1

\* The entry taken in an EntryStep.
Taken == tree.nums[i + 1]

HasBoth(e) == {"Best", "Recommended"} \subseteq DOMAIN e.votes

\* The category's count is the maximum over all categories of the entry.
IsMax(e, c) == \A d \in DOMAIN e.votes : e.votes[d] <= e.votes[c]

IsOpen(e) == e.count_str[Len(e.count_str)] = "+"

\* N of an open-ended descriptor "N+".
LowerBound(e) == ParseInt(SubSeq(e.count_str, 1, Len(e.count_str) - 1))

\* The player counts an entry stands for, as "N or more" up to `top`.
Stands(e, top) ==
    IF IsOpen(e)
    THEN {n \in Horizon : LowerBound(e) <= n /\ n <= top}
    ELSE {ParseInt(e.count_str)}

\* get_game_stats on one reply, without any retry before it.
RECURSIVE Fold(_, _, _, _)
Fold(nums, k, best, rec) ==
    IF k > Len(nums) THEN <<best, rec>>
    ELSE LET next == AddEntry(best, rec, nums[k])
         IN  Fold(nums, k + 1, next[1], next[2])

Direct(t) == <<Fold(t.nums, 1, {}, {})[1], Fold(t.nums, 1, {}, {})[2], FloatValue[t.weight]>>

\* A reply from which the three values can be read: the player-count element
\* with at least one entry, every entry with its required categories, and a
\* numeric weight.
Valid(t) ==
    /\ t.has_nums
    /\ Len(t.nums) >= 1
    /\ t.weight \in DOMAIN FloatValue
    /\ \A k \in 1..Len(t.nums) : Classify(t.nums[k].votes) # "KeyError"

Rows(out) == SelectSeq(out, LAMBDA line : line.kind = "row")

-----------------------------------------------------------------------------
(* Properties of get_game_stats, checked under StatsSpec *)

\* C1 as stated: an entry whose "Best" and "Recommended" counts are tied at
\* the maximum of the entry (all-zero included) is unrated: its counts are
\* added to neither set.
C1_TieUnrated ==
    [][EntryStep /\ HasBoth(Taken) /\ Taken.votes["Best"] = Taken.votes["Recommended"]
         /\ IsMax(Taken, "Best")
       => best_counts' = best_counts /\ recommended_counts' = recommended_counts]_vars

\* C1 amended: such an entry is classified BEST: its counts are added to
\* best_counts, and recommended_counts is left as it was.
C1_TieBest ==
    [][EntryStep /\ HasBoth(Taken) /\ Taken.votes["Best"] = Taken.votes["Recommended"]
         /\ IsMax(Taken, "Best")
       => /\ best_counts' = best_counts \cup Stands(Taken, RANGE_STOP - 1)
          /\ recommended_counts' = recommended_counts]_vars

\* A tied entry "2" with no vote at all has been taken, and 2 is a best count.
C1_Witness ==
    /\ pc = "for_entries"
    /\ i = 1
    /\ Current.count_str = <<"2">>
    /\ HasBoth(Current)
    /\ \A c \in DOMAIN Current.votes : Current.votes[c] = 0
    /\ best_counts = {2}
    /\ recommended_counts = {}

\* C5: with m the maximum count of the entry, its counts go to best_counts
\* iff "Best" is m; otherwise to recommended_counts iff "Recommended" is m;
\* otherwise to neither set.
C5_Classification ==
    [][EntryStep /\ HasBoth(Taken)
       => LET counts == Stands(Taken, RANGE_STOP - 1)
          IN  IF IsMax(Taken, "Best")
              THEN /\ best_counts' = best_counts \cup counts
                   /\ recommended_counts' = recommended_counts
              ELSE IF IsMax(Taken, "Recommended")
              THEN /\ recommended_counts' = recommended_counts \cup counts
                   /\ best_counts' = best_counts
              ELSE /\ best_counts' = best_counts
                   /\ recommended_counts' = recommended_counts]_vars

\* Two entries have been taken: the first went to recommended_counts ("Best"
\* below the maximum), the second to neither set.
C5_Witness ==
    /\ pc = "for_entries"
    /\ i = 2
    /\ HasBoth(tree.nums[1]) /\ HasBoth(tree.nums[2])
    /\ ~IsMax(tree.nums[1], "Best") /\ IsMax(tree.nums[1], "Recommended")
    /\ ~IsMax(tree.nums[2], "Best") /\ ~IsMax(tree.nums[2], "Recommended")
    /\ tree.nums[1].count_str = <<"2">>
    /\ tree.nums[2].count_str = <<"2", "+">>
    /\ recommended_counts = {2}
    /\ best_counts = {}

\* C3 as stated: once an open-ended entry "N+" has been classified BEST
\* (RECOMMENDED), every target T >= N is in best_counts (recommended_counts).
C3_NoCutOff ==
    \A k \in 1..i :
        LET e == tree.nums[k]
        IN  IsOpen(e) /\ HasBoth(e) =>
              \A T \in Horizon :
                  T >= LowerBound(e) =>
                    /\ IsMax(e, "Best") => T \in best_counts
                    /\ ~IsMax(e, "Best") /\ IsMax(e, "Recommended")
                         => T \in recommended_counts

\* C3 amended: an open-ended entry "N+" adds exactly the targets T with
\* N <= T <= 100 to the set of its class; no target above 100 is added.
C3_CutOffAt100 ==
    [][EntryStep /\ IsOpen(Taken) /\ HasBoth(Taken)
       => LET counts == {T \in Horizon : LowerBound(Taken) <= T /\ T <= 100}
          IN  /\ IsMax(Taken, "Best") => best_counts' = best_counts \cup counts
              /\ ~IsMax(Taken, "Best") /\ IsMax(Taken, "Recommended")
                   => recommended_counts' = recommended_counts \cup counts]_vars

\* The entry "2+" has been classified BEST: 2 and 100 are best counts, 101 is
\* not.
C3_Witness ==
    /\ pc = "for_entries"
    /\ i = 1
    /\ Current.count_str = <<"2", "+">>
    /\ HasBoth(Current) /\ IsMax(Current, "Best")
    /\ {2, 100} \subseteq best_counts
    /\ 101 \notin best_counts

\* C10 as stated: the best_counts and recommended_counts that get_game_stats
\* returns are disjoint (stated here for the replies whose entries all carry
\* both "Best" and "Recommended").
C10_Disjoint ==
    pc = "rate" /\ (\A k \in 1..Len(tree.nums) : HasBoth(tree.nums[k]))
        => best_counts \cap recommended_counts = {}

\* C10 amended: one entry adds its counts to at most one of the two sets; the
\* sets themselves may overlap after different entries.
C10_OneSetPerEntry ==
    [][EntryStep => best_counts' = best_counts \/ recommended_counts' = recommended_counts]_vars

\* "2" went to recommended_counts and "2+" to best_counts: 2 is returned in
\* both sets.
C10_Witness ==
    /\ pc = "rate"
    /\ Len(tree.nums) = 2
    /\ tree.nums[1].count_str = <<"2">>
    /\ tree.nums[2].count_str = <<"2", "+">>
    /\ 2 \in best_counts \cap recommended_counts

\* What is left of a call: the requests the environment can still reject,
\* then the entries still to take.  It bounds the steps to the return.
Variant ==
    CASE pc = "stats_request" -> 2 * budget + 2 + Cardinality(EntryCounts)
      [] pc = "stats_wait" -> 2 * budget + 1 + Cardinality(EntryCounts)
      [] pc = "for_entries" -> Len(tree.nums) - i + 1
      [] OTHER -> 0

\* C2: as long as every reply so far was a rate-limit rejection (k of them),
\* the call goes on asking and shows nothing; when the reply after them is a
\* valid one, it has issued exactly k + 1 requests, prints nothing, does not
\* fail, and returns what that reply alone yields.  The call always has a
\* next step until it is over, and every step brings its end nearer, so it
\* returns whatever the number of rejections.
C2_RetryThenReturn ==
    /\ [](replies = rejections =>
            /\ pc \in {"stats_request", "stats_wait"}
            /\ attempts = IF pc = "stats_wait" THEN replies + 1 ELSE replies
            /\ stdout = <<HEADER>> /\ exit_status = -1 /\ error = "")
    /\ [](replies = rejections + 1 /\ Valid(tree) =>
            /\ pc \in {"for_entries", "rate"}
            /\ attempts = rejections + 1
            /\ inflight = {}
            /\ stdout = <<HEADER>> /\ exit_status = -1 /\ error = ""
            /\ pc = "rate" =>
                 <<best_counts, recommended_counts, average_weight>> = Direct(tree))
    /\ [](pc \in {"stats_request", "stats_wait", "for_entries"} => ENABLED StatsNext)
    /\ [][Variant' < Variant]_vars

\* Two rejections, then a valid reply with an entry for each set: the call
\* has returned after three requests.
C2_Witness ==
    /\ pc = "rate"
    /\ rejections = 2
    /\ attempts = 3
    /\ Valid(tree)
    /\ best_counts # {} /\ recommended_counts # {}

\* C9 as stated: once a reply holds the player-count element, with any number
\* of entries, the retry loop is over: the message is not looked at, so the
\* call neither retries, nor exits, nor fails on the missing message.
C9_LoopEndsOnElement ==
    tree.has_nums =>
        /\ pc \notin {"stats_request", "stats_wait", "exited"}
        /\ error # MessageError

-----------------------------------------------------------------------------
(* Properties of main, checked under Spec *)

\* The row main owes for the game it has just got the values of.
Owed ==
    IF num_players \in best_counts
    THEN <<Row("BEST", games[idx], average_weight)>>
    ELSE IF num_players \in recommended_counts
    THEN <<Row("RECOMMENDED", games[idx], average_weight)>>
    ELSE <<>>

\* C4: when a game's values have been returned, its row is appended at once
\* if the target is in best_counts (BEST) or else in recommended_counts
\* (RECOMMENDED), and nothing otherwise; no other step adds, drops or moves
\* a row; so the rows are those of the matching games in page-then-row order.
C4_RowsInOrder ==
    /\ [][IF pc = "rate" /\ pc' # "rate"
          THEN stdout' = stdout \o Owed
          ELSE Rows(stdout') = Rows(stdout)]_vars
    /\ [](\A j, k \in 1..Len(Rows(stdout)) :
            j < k => Rows(stdout)[j].game.bgg_rank < Rows(stdout)[k].game.bgg_rank)

\* On the second page, a game whose target is in both sets has got its row,
\* BEST, after a row of the first page.
C4_Witness ==
    /\ pc = "game_loop"
    /\ page = 2
    /\ idx = 2
    /\ num_players \in best_counts \cap recommended_counts
    /\ Len(stdout) = 3
    /\ stdout[2].game.bgg_rank <= MaxRows
    /\ stdout[3] = Row("BEST", games[1], average_weight)

\* The reply just received lacks the player-count element and carries a
\* message other than the rate-limit text.
Unexpected ==
    /\ pc = "stats_wait" /\ pc' # "stats_wait"
    /\ ~tree'.has_nums
    /\ tree'.message \notin {NoMessage, RATE_LIMIT_TEXT}

\* C6: on such a reply there is no retry: the reply is dumped, the process
\* exits with status 1, and afterwards no request is issued and no line
\* printed.
C6_FatalMessage ==
    [][/\ Unexpected =>
            /\ pc' = "exited"
            /\ exit_status' = 1
            /\ stdout' = stdout \o Diagnostic(tree')
            /\ last_request' = last_request /\ attempts' = attempts
            /\ inflight' = {}
       /\ pc = "exited" =>
            /\ pc' = "exited"
            /\ UNCHANGED <<stdout, last_request, attempts, inflight, exit_status>>]_vars

\* After one printed row, the reply for the next game said "Not Found": the
\* process has exited with the dump as its last line.
C6_Witness ==
    /\ pc = "exited"
    /\ exit_status = 1
    /\ tree.message = "Not Found"
    /\ Len(stdout) = 4
    /\ stdout[2].kind = "row"
    /\ stdout[4] = [kind |-> "dump", xml |-> tree]

\* C7 as stated: the output is the header line followed only by rows.
C7_HeaderAndRowsOnly ==
    /\ stdout[1] = HEADER
    /\ \A k \in 2..Len(stdout) : stdout[k].kind = "row"

\* A request is issued in this step.
Issued == inflight' # inflight /\ inflight' # {}

\* The game the last request was about has been fully processed.
Processed(q) == q.kind = "thing" /\ idx = q.row + 1

\* C8: never two requests outstanding; page 1 is requested first; a page is
\* followed by its first stub, a stub by itself (only after a rate-limit
\* rejection), by the next stub once it is processed, and the next page is
\* requested only once the last stub of the page is processed; at the end
\* the last stub of the last page has been processed.
C8_OneAtATimeInOrder ==
    /\ [](/\ Cardinality(inflight) <= 1
          /\ inflight # {} => inflight = {last_request} /\ pc \in {"page_wait", "stats_wait"}
          /\ pc = "done" =>
               /\ page = num_pages + 1
               /\ \/ last_request = ListRequest(num_pages) /\ Len(games) = 0
                  \/ /\ Len(games) > 0
                     /\ last_request = ThingRequest(num_pages, Len(games), games[Len(games)])
                     /\ idx = Len(games) + 1)
    /\ [][Issued =>
            LET q == last_request
                r == last_request'
            IN  /\ inflight = {}
                /\ inflight' = {r}
                /\ r.kind \in {"list", "thing"}
                /\ r.kind = "list" =>
                     /\ r = ListRequest(q.page + 1)
                     /\ r.page = page /\ r.page <= num_pages
                     /\ \/ q.kind = "none"
                        \/ q.kind = "list" /\ Len(games) = 0
                        \/ Processed(q) /\ q.row = Len(games)
                /\ r.kind = "thing" =>
                     /\ r.row \in 1..Len(games)
                     /\ q.page = page
                     /\ r = ThingRequest(page, r.row, games[r.row])
                     /\ \/ q.kind = "list" /\ r.row = 1
                        \/ q.kind = "thing" /\ r.row = q.row + 1 /\ idx = r.row
                              /\ pc = "stats_request" /\ attempts = 0
                        \/ q = r /\ ~tree.has_nums /\ tree.message = RATE_LIMIT_TEXT
                              /\ attempts >= 1]_vars

\* The second stub of the second page is being asked for a second time.
C8_Witness ==
    /\ page = 2
    /\ idx = 2
    /\ pc = "stats_wait"
    /\ attempts = 2
    /\ inflight = {ThingRequest(2, 2, games[2])}

=============================================================================
